---- MODULE Spec2Model ----
(***************************************************************************)
(* A model of scripts/publisher.py (WeChatPublisher): the access-token     *)
(* cache (get_access_token), the image upload (upload_image), the content  *)
(* normalisation (_remove_cover_image, _upload_content_images), the field  *)
(* length enforcement (truncate_by_bytes and the title/author/digest       *)
(* rules) and the draft submission with its one-shot retry (create_draft). *)
(*                                                                         *)
(* Text that is measured in bytes (title, author, digest) is a sequence of *)
(* Unicode code points; its UTF-8 length is computed from the code points. *)
(* Text that is matched by the image patterns (an <img> src) is a sequence *)
(* of one-character strings.  Time is in whole seconds.                    *)
(***************************************************************************)
EXTENDS Integers, Sequences, FiniteSets, TLC

VARIABLES
    now,            \* time.time()
    ticks,          \* how often the clock has been advanced
    cache,          \* the content of TOKEN_CACHE_FILE
    call,           \* the last get_access_token call made on its own (its arguments and outcome)
    issued,         \* the cache entry written by the last successful token request
    tb,             \* one application of truncate_by_bytes: arguments and result
    pc,             \* create_draft: the step it is at
    args,           \* create_draft: its arguments
    env,            \* the publisher's configuration and the files on disk
    title,          \* create_draft: local title
    author,         \* create_draft: local author
    digest,         \* create_draft: local digest
    content,        \* create_draft: local content
    thumb_media_id, \* create_draft: local thumb_media_id
    pos,            \* _upload_content_images: the index of the next match of img_pattern
    outcomes,       \* _upload_content_images: what happened at each match so far
    log,            \* the network calls issued and the warnings printed, in order
    result          \* create_draft: the errcode of each draft submission, and how the call ended

tokVars == <<now, ticks, cache, call, issued>>
tbVars == <<tb>>
draftVars == <<pc, args, env, title, author, digest, content, thumb_media_id,
               pos, outcomes, log, result>>
vars == <<now, ticks, cache, call, issued, tb, pc, args, env, title, author, digest,
          content, thumb_media_id, pos, outcomes, log, result>>

----------------------------------------------------------------------------
(* Bounds of the model *)

MaxTicks == 3       \* clock advances in one behaviour
MaxStrLen == 3      \* length of the strings truncate_by_bytes is applied to on its own
MaxBytes == 13      \* largest byte limit truncate_by_bytes is applied with on its own
MaxDocLen == 3      \* items of a document given to create_draft
MaxTitleLen == 70   \* characters of a title before its last one
MaxAuthorLen == 21  \* characters of an author
MaxDigestLen == 41  \* characters of a digest

----------------------------------------------------------------------------
(* Text and its UTF-8 encoding *)

\* 'a', 'e' with acute accent, a CJK ideograph, an emoji: 1, 2, 3 and 4 bytes in UTF-8
Chars == {97, 233, 20013, 128512}

\* len(chr(cp).encode('utf-8'))
Utf8Len(cp) ==
    IF cp < 128 THEN 1
    ELSE IF cp < 2048 THEN 2
    ELSE IF cp < 65536 THEN 3
    ELSE 4

RECURSIVE EncodedLen(_)
\* len(text.encode('utf-8'))
EncodedLen(text) ==
    IF text = <<>> THEN 0
    ELSE Utf8Len(Head(text)) + EncodedLen(Tail(text))

\* text[:i]
Slice(text, i) == SubSeq(text, 1, IF i < Len(text) THEN i ELSE Len(text))

\* A faulty variant: the loop accepts a prefix one byte over the limit
RECURSIVE TruncateLoop_OffByOne(_, _, _)
TruncateLoop_OffByOne(text, max_bytes, i) ==
    IF i < 1 THEN <<>>
    ELSE IF EncodedLen(Slice(text, i)) <= max_bytes + 1 THEN Slice(text, i)
    ELSE TruncateLoop_OffByOne(text, max_bytes, i - 1)

RECURSIVE TruncateLoop(_, _, _)
\* for i in range(len(text), 0, -1): the first text[:i] that fits, else ""
TruncateLoop(text, max_bytes, i) ==
    IF i < 1 THEN <<>>
    ELSE IF EncodedLen(Slice(text, i)) <= max_bytes THEN Slice(text, i)
    ELSE TruncateLoop(text, max_bytes, i - 1)

truncate_by_bytes(text, max_bytes) ==
    IF EncodedLen(text) <= max_bytes THEN text
    ELSE TruncateLoop(text, max_bytes, Len(text))

\* All strings over Chars of length at most n
StringsUpTo(n) == UNION {[1..k -> Chars] : k \in 0..n}

\* c repeated n times
Repeat(c, n) == [i \in 1..n |-> c]

----------------------------------------------------------------------------
(* The token cache: get_access_token *)

SAFETY_MARGIN == 300
DEFAULT_EXPIRES_IN == 7200

NoToken == "none"

\* The states of TOKEN_CACHE_FILE
NoFile == [kind |-> "absent"]
UnreadableFile == [kind |-> "unreadable"]       \* open() raises
InvalidJsonFile == [kind |-> "invalid_json"]    \* json.load raises
NonObjectFile == [kind |-> "json_list"]         \* valid JSON that is no object: cache.get raises
ObjectFile(fields) == [kind |-> "json_object", fields |-> fields]

\* dict.get(key, default)
DictGet(d, key, default) == IF key \in DOMAIN d THEN d[key] ELSE default

\* A faulty variant: the 300 s margin is forgotten
TokenFresh_NoMargin(fields, t) == t < DictGet(fields, "expires_at", 0)

\* time.time() < cache.get('expires_at', 0) - 300
TokenFresh(fields, t) == t < DictGet(fields, "expires_at", 0) - SAFETY_MARGIN

\* A faulty variant: a failing cache read is not caught
CacheReadFailure_Propagates == "raise"

\* except Exception as e: print(...)  -- the failure is logged and the cache is not used
CacheReadFailure == "miss"

\* The cache lookup of get_access_token: "hit" with the token to return, or "miss"
ReadTokenCache(file, t) ==
    IF file.kind = "absent" THEN [status |-> "miss", token |-> NoToken]
    ELSE IF file.kind # "json_object" THEN [status |-> CacheReadFailure, token |-> NoToken]
    ELSE IF TokenFresh(file.fields, t)
         THEN IF "access_token" \in DOMAIN file.fields
              THEN [status |-> "hit", token |-> file.fields["access_token"]]
              ELSE [status |-> CacheReadFailure, token |-> NoToken]
         ELSE [status |-> "miss", token |-> NoToken]

\* A faulty variant: the server's expires_in is ignored
ExpiresIn_Ignored(resp) == DEFAULT_EXPIRES_IN

\* result.get('expires_in', 7200)
ExpiresIn(resp) == DictGet(resp, "expires_in", DEFAULT_EXPIRES_IN)

\* cache_data, as json.dump writes it
CacheData(access_token, t, expires_in) ==
    ObjectFile([access_token |-> access_token,
                expires_at |-> t + expires_in,
                updated_at |-> t])

\* A faulty variant: a failed request falls back to the cached token
TokenRequestFailed_FallsBack(file, resp) ==
    IF file.kind = "json_object" /\ {"access_token", "expires_at"} \subseteq DOMAIN file.fields
    THEN [raised |-> FALSE, token |-> file.fields["access_token"], cache |-> file, net |-> 1]
    ELSE [raised |-> TRUE, token |-> NoToken, cache |-> file, net |-> 1]

\* if 'errcode' in result: raise Exception(error_msg)
TokenRequestFailed(file, resp) ==
    [raised |-> TRUE, token |-> NoToken, cache |-> file, net |-> 1]

\* The request to /token and what follows it; resp is the JSON the endpoint answers
RequestNewToken(file, t, resp) ==
    IF "errcode" \in DOMAIN resp
    THEN TokenRequestFailed(file, resp)
    ELSE [raised |-> FALSE,
          token |-> resp["access_token"],
          cache |-> CacheData(resp["access_token"], t, ExpiresIn(resp)),
          net |-> 1]

\* get_access_token(force_refresh) at time t with the cache file as it is; resp is what
\* the /token endpoint would answer.  Gives the token returned or the exception raised,
\* the cache file afterwards and the number of requests to /token.
get_access_token(file, t, force_refresh, resp) ==
    LET r == IF force_refresh THEN [status |-> "miss", token |-> NoToken]
             ELSE ReadTokenCache(file, t)
    IN  IF r.status = "hit"
        THEN [raised |-> FALSE, token |-> r.token, cache |-> file, net |-> 0]
        ELSE IF r.status = "raise"
        THEN [raised |-> TRUE, token |-> NoToken, cache |-> file, net |-> 0]
        ELSE RequestNewToken(file, t, resp)

\* What /token answers
TokenErrorCodes == {40001, 40164}
TokenTtls == {100, SAFETY_MARGIN + 1, 10000}
TokenResponses ==
    {[errcode |-> e, errmsg |-> "err"] : e \in TokenErrorCodes}
    \cup {[access_token |-> a, expires_in |-> x] : a \in {"tokA", "tokB"}, x \in TokenTtls}
    \cup {[access_token |-> a] : a \in {"tokA", "tokB"}}

\* The cache files a run can find at time t
CachedExpiries(t) == {t - 1, t + 100, t + SAFETY_MARGIN, t + SAFETY_MARGIN + 1, t + 10000}
CacheFiles(t) ==
    {NoFile, UnreadableFile, InvalidJsonFile, NonObjectFile}
    \cup {ObjectFile([access_token |-> "tokOld", expires_at |-> x, updated_at |-> t - 1]) :
            x \in CachedExpiries(t)}
    \cup {ObjectFile([expires_at |-> x]) : x \in {t + 10000}}
    \cup {ObjectFile([access_token |-> "tokOld"])}

\* The clock advances between calls
TickSteps == {1, SAFETY_MARGIN - 1, DEFAULT_EXPIRES_IN - SAFETY_MARGIN - 1}

NoCall == [made |-> FALSE]
NoIssue == [made |-> FALSE]

\* The entry of the cache a token request wrote
Issue(r, t) ==
    IF r.net = 1 /\ ~r.raised
    THEN [made |-> TRUE, token |-> r.token, expires_at |-> r.cache.fields["expires_at"],
          at |-> t]
    ELSE issued

----------------------------------------------------------------------------
(* HTML content.  A document is a sequence of items: text, a comment (that may    *)
(* hold the title marker), a run of whitespace, or an <img> tag that img_pattern  *)
(* matches, kept as the groups of the match: the text before src= (before_src),   *)
(* the src, its quote, and the text after (after_src), each of the two a sequence *)
(* of attributes.                                                                 *)

Str_cover == <<"c", "o", "v", "e", "r">>
Str_http == <<"h", "t", "t", "p", ":", "/", "/">>
Str_https == <<"h", "t", "t", "p", "s", ":", "/", "/">>
Ext_png == <<".", "p", "n", "g">>
Ext_jpg == <<".", "j", "p", "g">>
Ext_jpeg == <<".", "j", "p", "e", "g">>
Ext_gif == <<".", "g", "i", "f">>

UpperCase == <<"A", "B", "C", "D", "E", "F", "G", "H", "I", "J", "K", "L", "M",
               "N", "O", "P", "Q", "R", "S", "T", "U", "V", "W", "X", "Y", "Z">>
LowerCase == <<"a", "b", "c", "d", "e", "f", "g", "h", "i", "j", "k", "l", "m",
               "n", "o", "p", "q", "r", "s", "t", "u", "v", "w", "x", "y", "z">>

\* The lower-case letter of each upper-case letter
UpperToLower ==
    [ch \in {UpperCase[i] : i \in DOMAIN UpperCase} |->
        LowerCase[CHOOSE i \in DOMAIN UpperCase : UpperCase[i] = ch]]

LowerChar(ch) == IF ch \in DOMAIN UpperToLower THEN UpperToLower[ch] ELSE ch

\* str.lower()
Lower(s) == [i \in DOMAIN s |-> LowerChar(s[i])]

\* s.startswith(prefix)
StartsWith(s, prefix) ==
    /\ Len(prefix) <= Len(s)
    /\ SubSeq(s, 1, Len(prefix)) = prefix

\* sub in s
Contains(s, sub) ==
    \E i \in 0..(Len(s) - Len(sub)) : SubSeq(s, i + 1, i + Len(sub)) = sub

IsImg(item) == item.kind = "img"

Attrs(tag) == {tag.before_src[i] : i \in DOMAIN tag.before_src}
              \cup {tag.after_src[i] : i \in DOMAIN tag.after_src}

\* <img[^>]*src=["']cover\.(png|jpg|jpeg|gif)["'][^>]*> with re.IGNORECASE
MatchesCoverSrc(tag) ==
    Lower(tag.src) \in {Str_cover \o e : e \in {Ext_png, Ext_jpg, Ext_jpeg, Ext_gif}}

\* <img[^>]*alt=["'][^"']*封面[^"']*["'][^>]*>: an alt attribute whose value holds the marker
MatchesCoverAlt(tag) == \E a \in Attrs(tag) : a.name = "alt" /\ a.marked

\* the same pattern for the title attribute
MatchesCoverTitle(tag) == \E a \in Attrs(tag) : a.name = "title" /\ a.marked

\* re.sub(pattern, '', content) for each of the three patterns: the items that are left
RemoveCoverSrc(doc) == SelectSeq(doc, LAMBDA item : ~(IsImg(item) /\ MatchesCoverSrc(item)))
RemoveCoverAlt(doc) == SelectSeq(doc, LAMBDA item : ~(IsImg(item) /\ MatchesCoverAlt(item)))
RemoveCoverTitle(doc) ==
    SelectSeq(doc, LAMBDA item : ~(IsImg(item) /\ MatchesCoverTitle(item)))

\* The first index of a match of (<!--[^>]*标题[^>]*-->)\s*<img[^>]*>, as the pair of the
\* comment's index and the tag's index; <<0, 0>> when there is none
TitleCommentImage(doc) ==
    LET Hit(i, j) ==
            /\ doc[i].kind = "comment" /\ doc[i].title_marker
            /\ i < j
            /\ \A k \in (i + 1)..(j - 1) : doc[k].kind = "space"
            /\ IsImg(doc[j])
        hits == {i \in DOMAIN doc : \E j \in DOMAIN doc : Hit(i, j)}
    IN  IF hits = {} THEN <<0, 0>>
        ELSE LET i == CHOOSE x \in hits : \A y \in hits : x <= y
             IN  <<i, CHOOSE j \in DOMAIN doc : Hit(i, j)>>

\* re.sub(..., r'\1', content, count=1): the whitespace and the tag after the comment go
RemoveTitleCommentImage(doc) ==
    LET m == TitleCommentImage(doc)
    IN  IF m = <<0, 0>> THEN doc
        ELSE SubSeq(doc, 1, m[1]) \o SubSeq(doc, m[2] + 1, Len(doc))

remove_cover_image(doc) ==
    RemoveTitleCommentImage(RemoveCoverTitle(RemoveCoverAlt(RemoveCoverSrc(doc))))

\* The index of the first match of img_pattern at or after i; Len(doc) + 1 when none
NextImage(doc, i) ==
    IF \E j \in i..Len(doc) : IsImg(doc[j])
    THEN CHOOSE j \in i..Len(doc) : IsImg(doc[j]) /\ \A k \in i..(j - 1) : ~IsImg(doc[k])
    ELSE Len(doc) + 1

\* src.startswith(('http://', 'https://'))
IsRemoteSrc(src) == StartsWith(src, Str_http) \/ StartsWith(src, Str_https)

\* 'cover' in src.lower()
IsCoverLikeSrc(src) == Contains(Lower(src), Str_cover)

\* A faulty variant: the uploaded URL is not put into the tag
WithUploadedUrl_Unchanged(tag, wechat_url) == tag

\* f'<img{before_src}src="{wechat_url}"{after_src}>'
WithUploadedUrl(tag, wechat_url) ==
    [kind |-> "img", before_src |-> tag.before_src, src |-> wechat_url,
     quote |-> "double", after_src |-> tag.after_src]

\* re.sub(r'>\s+<', '><', content): whitespace between two tags goes.  The other rewrites
\* of _fix_wechat_editor_issues act on CSS declarations (text up to a semicolon) and on
\* style attributes, which the documents of this model do not hold.
IsTag(item) == item.kind \in {"img", "comment"}
fix_wechat_editor_issues(doc) ==
    LET TagBefore(i) == \E j \in 1..(i - 1) :
                            IsTag(doc[j]) /\ \A k \in (j + 1)..i : doc[k].kind = "space"
        TagAfter(i) == \E j \in (i + 1)..Len(doc) :
                            IsTag(doc[j]) /\ \A k \in i..(j - 1) : doc[k].kind = "space"
        keep == {i \in DOMAIN doc :
                    ~(doc[i].kind = "space" /\ TagBefore(i) /\ TagAfter(i))}
        Pick[i \in 0..Len(doc)] ==
            IF i = 0 THEN <<>>
            ELSE IF i \in keep THEN Append(Pick[i - 1], doc[i]) ELSE Pick[i - 1]
    IN  Pick[Len(doc)]

----------------------------------------------------------------------------
(* upload_image *)

\* What /material/add_material answers
Url_http == Str_http \o <<"q", "/", "1">>
Url_https == Str_https \o <<"q", "/", "2">>
NoUrl == <<>>
UploadResponses ==
    {[errcode |-> 40164, errmsg |-> "err"],
     [media_id |-> "m1", url |-> Url_http],
     [errcode |-> 0, media_id |-> "m2", url |-> Url_https],
     [media_id |-> "m3", url |-> NoUrl],
     [media_id |-> "m4"]}

\* What /token answers during create_draft
DraftTokenResponses ==
    {[errcode |-> 40164, errmsg |-> "err"],
     [access_token |-> "tokA", expires_in |-> 100],
     [access_token |-> "tokB"]}

\* The requests a get_access_token call adds to the log
TokenEvents(r, force_refresh) ==
    IF r.net = 0 THEN <<>>
    ELSE IF force_refresh THEN <<"token_refresh_forced">>
    ELSE <<"token_request">>

\* upload_image(image_path, return_url): what names the image ("cover" or "content"),
\* exists is os.path.exists(image_path), token_resp
\* and upload_resp what the two endpoints would answer.  Gives the exception raised or
\* the media_id and url returned, the cache file afterwards and the requests issued.
upload_image(what, exists, file, t, token_resp, upload_resp) ==
    IF ~exists
    THEN [raised |-> "not_found", media_id |-> "", url |-> NoUrl, cache |-> file,
          events |-> <<>>]
    ELSE LET r == get_access_token(file, t, FALSE, token_resp)
         IN  IF r.raised
             THEN [raised |-> "token", media_id |-> "", url |-> NoUrl, cache |-> r.cache,
                   events |-> TokenEvents(r, FALSE)]
             ELSE IF "errcode" \in DOMAIN upload_resp /\ upload_resp["errcode"] # 0
             THEN [raised |-> "rejected", media_id |-> "", url |-> NoUrl,
                   cache |-> r.cache,
                   events |-> TokenEvents(r, FALSE) \o <<"upload_" \o what>>]
             ELSE [raised |-> "no", media_id |-> DictGet(upload_resp, "media_id", ""),
                   url |-> DictGet(upload_resp, "url", NoUrl), cache |-> r.cache,
                   events |-> TokenEvents(r, FALSE) \o <<"upload_" \o what>>]

----------------------------------------------------------------------------
(* Field limits of create_draft *)

MAX_AUTHOR_BYTES == 20
MAX_DIGEST_BYTES == 120
MAX_TITLE_CHARS == 64
MAX_TITLE_BYTES == 192
DIGEST_FROM_TITLE_BYTES == 54

\* The title checks: by characters first, by bytes only otherwise (elif)
EnforceTitle(t) ==
    IF Len(t) > MAX_TITLE_CHARS
    THEN [title |-> Slice(t, MAX_TITLE_CHARS), warnings |-> <<"warn_title_chars">>]
    ELSE IF EncodedLen(t) > MAX_TITLE_BYTES
    THEN [title |-> truncate_by_bytes(t, MAX_TITLE_BYTES),
          warnings |-> <<"warn_title_bytes">>]
    ELSE [title |-> t, warnings |-> <<>>]

\* if author is None: author = self.author
EffectiveAuthor(a, self_author) == IF a.given THEN a.text ELSE self_author

\* if author: truncate to 20 bytes and warn when that changed it
EnforceAuthor(a) ==
    IF a # <<>>
    THEN LET cut == truncate_by_bytes(a, MAX_AUTHOR_BYTES)
         IN  [author |-> cut,
              warnings |-> IF cut # a THEN <<"warn_author">> ELSE <<>>]
    ELSE [author |-> a, warnings |-> <<>>]

\* A faulty variant: a missing digest is the whole title, cut only by the digest limit
EnforceDigest_WholeTitle(d, t) ==
    LET original_digest == IF d = <<>> THEN t ELSE d
        cut == truncate_by_bytes(original_digest, MAX_DIGEST_BYTES)
    IN  [digest |-> cut,
         warnings |-> IF cut # original_digest THEN <<"warn_digest">> ELSE <<>>]

\* if not digest: digest = truncate_by_bytes(title, 54), title being the local title
\* after the title checks; then truncate to 120 bytes and warn when that changed it
EnforceDigest(d, t) ==
    LET original_digest == IF d = <<>> THEN truncate_by_bytes(t, DIGEST_FROM_TITLE_BYTES)
                           ELSE d
        cut == truncate_by_bytes(original_digest, MAX_DIGEST_BYTES)
    IN  [digest |-> cut,
         warnings |-> IF cut # original_digest THEN <<"warn_digest">> ELSE <<>>]

----------------------------------------------------------------------------
(* The draft submission and its retry *)

\* The errcode of what /draft/add answers; 0 for {media_id}
DraftCodes == {0, 40001, 42001, 45009, 40164, 47003}

\* A faulty variant: the quota error 45009 is retried too
IsTokenExpired_WithQuota(errcode) == errcode \in {40001, 42001, 45009}

\* if result['errcode'] in [40001, 42001]
IsTokenExpired(errcode) == errcode \in {40001, 42001}

\* A faulty variant: a second token error starts another retry
AfterResubmit_RetriesAgain(errcode) ==
    IF errcode = 0 THEN "Done"
    ELSE IF IsTokenExpired(errcode) THEN "Retrying"
    ELSE "Failed"

\* The check of the second response: raise on any non-zero errcode
AfterResubmit(errcode) == IF errcode # 0 THEN "Failed" ELSE "Done"

\* The check of the first response
AfterSubmit(errcode) ==
    IF errcode # 0
    THEN IF IsTokenExpired(errcode) THEN "Retrying" ELSE "Failed"
    ELSE "Done"

\* How often an event is in the log
RECURSIVE Count(_, _)
Count(events, e) ==
    IF events = <<>> THEN 0
    ELSE (IF Head(events) = e THEN 1 ELSE 0) + Count(Tail(events), e)

----------------------------------------------------------------------------
(* create_draft at rest: the values of its variables while it is not modelled *)

DraftIdle ==
    /\ pc = "idle"
    /\ args = <<>>
    /\ env = <<>>
    /\ title = <<>>
    /\ author = <<>>
    /\ digest = <<>>
    /\ content = <<>>
    /\ thumb_media_id = ""
    /\ pos = 0
    /\ outcomes = <<>>
    /\ log = <<>>
    /\ result = <<>>

TokenIdle ==
    /\ now = 0
    /\ ticks = 0
    /\ cache = NoFile
    /\ call = NoCall
    /\ issued = NoIssue

TruncateIdle == tb = [applied |-> FALSE]

----------------------------------------------------------------------------
(* truncate_by_bytes on its own *)

InitTruncate ==
    /\ tb \in {[applied |-> FALSE, text |-> s, max_bytes |-> n, out |-> <<>>] :
                s \in StringsUpTo(MaxStrLen), n \in 0..MaxBytes}
    /\ TokenIdle
    /\ DraftIdle

ApplyTruncate ==
    /\ "text" \in DOMAIN tb
    /\ ~tb.applied
    /\ tb' = [tb EXCEPT !.applied = TRUE, !.out = truncate_by_bytes(tb.text, tb.max_bytes)]
    /\ UNCHANGED <<tokVars, draftVars>>

NextTruncate == ApplyTruncate

SpecTruncate == InitTruncate /\ [][NextTruncate]_vars

----------------------------------------------------------------------------
(* get_access_token on its own: calls at advancing times *)

InitToken ==
    /\ now = 0
    /\ ticks = 0
    /\ cache \in CacheFiles(0)
    /\ call = NoCall
    /\ issued = NoIssue
    /\ TruncateIdle
    /\ DraftIdle

GetAccessToken ==
    \E force_refresh \in BOOLEAN, resp \in TokenResponses :
        LET r == get_access_token(cache, now, force_refresh, resp)
        IN  /\ cache' = r.cache
            /\ call' = [made |-> TRUE, force_refresh |-> force_refresh, at |-> now,
                        before |-> cache, issued_before |-> issued, resp |-> resp,
                        raised |-> r.raised, token |-> r.token, net |-> r.net]
            /\ issued' = Issue(r, now)
            /\ UNCHANGED <<now, ticks, tbVars, draftVars>>

Tick ==
    /\ ticks < MaxTicks
    /\ \E d \in TickSteps : now' = now + d
    /\ ticks' = ticks + 1
    /\ UNCHANGED <<cache, call, issued, tbVars, draftVars>>

NextToken == GetAccessToken \/ Tick

SpecToken == InitToken /\ [][NextToken]_vars

----------------------------------------------------------------------------
(* create_draft *)

\* A faulty variant: the exception of upload_image is not caught
UploadFailureAborts_Raises == TRUE

\* except Exception as e: print(...); return match.group(0)
UploadFailureAborts == FALSE

\* Whether replace_image gets as far as upload_image
ReachesUpload(tag, files) ==
    ~IsRemoteSrc(tag.src) /\ ~IsCoverLikeSrc(tag.src) /\ tag.src \in files

\* replace_image(match) for the tag of one match: the tag to put in its place, what
\* happened, the cache file afterwards and the requests issued
replace_image(tag, files, file, t, token_resp, upload_resp) ==
    LET Keep(why) == [tag |-> tag, what |-> why, url |-> NoUrl, cache |-> file,
                      events |-> <<>>, aborted |-> FALSE]
    IN  IF IsRemoteSrc(tag.src) THEN Keep("remote")
        ELSE IF IsCoverLikeSrc(tag.src) THEN Keep("cover_like")
        ELSE IF tag.src \notin files THEN Keep("missing")
        ELSE LET u == upload_image("content", TRUE, file, t, token_resp, upload_resp)
             IN  IF u.raised # "no"
                 THEN [tag |-> tag, what |-> u.raised, url |-> NoUrl, cache |-> u.cache,
                       events |-> u.events, aborted |-> UploadFailureAborts]
                 ELSE IF u.url # NoUrl
                 THEN [tag |-> WithUploadedUrl(tag, u.url), what |-> "uploaded",
                       url |-> u.url, cache |-> u.cache, events |-> u.events,
                       aborted |-> FALSE]
                 ELSE [tag |-> tag, what |-> "no_url", url |-> NoUrl, cache |-> u.cache,
                       events |-> u.events, aborted |-> FALSE]

NoResult == [codes |-> <<>>, error |-> "none", payload |-> <<>>]

\* The state create_draft starts in, for the arguments a and the surroundings e
DraftStart(a, e, file) ==
    /\ now = 0
    /\ ticks = 0
    /\ cache = file
    /\ call = NoCall
    /\ issued = NoIssue
    /\ TruncateIdle
    /\ args = a
    /\ env = e
    /\ pc = "PreparingCover"
    /\ title = a.title
    /\ author = <<>>
    /\ digest = a.digest
    /\ content = a.content
    /\ thumb_media_id = a.thumb_media_id
    /\ pos = 0
    /\ outcomes = <<>>
    /\ log = <<>>
    /\ result = NoResult

\* A faulty variant: a failed cover upload is swallowed and the pipeline goes on
AfterCoverUploadFailure_Continues == "RemovingCover"

\* thumb_media_id = self.upload_image(default_cover) is not inside a try: what it raises
\* leaves create_draft
AfterCoverUploadFailure == "Failed"

\* 0. no thumb_media_id: upload the default cover when the asset is there
PrepareCover ==
    /\ pc = "PreparingCover"
    /\ IF thumb_media_id = ""
       THEN IF env.default_cover
            THEN \E token_resp \in DraftTokenResponses, upload_resp \in UploadResponses :
                    LET u == upload_image("cover", TRUE, cache, now, token_resp,
                                          upload_resp)
                    IN  /\ cache' = u.cache
                        /\ log' = log \o u.events
                        /\ IF u.raised # "no"
                           THEN /\ pc' = AfterCoverUploadFailure
                                /\ result' = [result EXCEPT !.error = "cover_" \o u.raised]
                                /\ UNCHANGED thumb_media_id
                           ELSE /\ pc' = "RemovingCover"
                                /\ thumb_media_id' = u.media_id
                                /\ UNCHANGED result
            ELSE /\ log' = Append(log, "warn_no_cover")
                 /\ pc' = "RemovingCover"
                 /\ UNCHANGED <<cache, thumb_media_id, result>>
       ELSE /\ pc' = "RemovingCover"
            /\ UNCHANGED <<cache, thumb_media_id, result, log>>
    /\ UNCHANGED <<now, ticks, call, issued, tbVars, args, env, title, author, digest,
                   content, pos, outcomes>>

\* 1. content = self._remove_cover_image(content)
RemoveCoverImage ==
    /\ pc = "RemovingCover"
    /\ content' = remove_cover_image(content)
    /\ pos' = NextImage(content', 1)
    /\ pc' = "UploadingImages"
    /\ UNCHANGED <<tokVars, tbVars, args, env, title, author, digest, thumb_media_id,
                   outcomes, log, result>>

\* What one call of replace_image with the outcome o does to create_draft
ImageReplaced(o) ==
    /\ cache' = o.cache
    /\ log' = log \o o.events
    /\ outcomes' = Append(outcomes, [at |-> pos, tag |-> content[pos],
                                     what |-> o.what, url |-> o.url])
    /\ IF o.aborted
       THEN /\ pc' = "Failed"
            /\ result' = [result EXCEPT !.error = "image_" \o o.what]
            /\ UNCHANGED <<content, pos>>
       ELSE /\ content' = [content EXCEPT ![pos] = o.tag]
            /\ pos' = NextImage(content, pos + 1)
            /\ UNCHANGED <<pc, result>>

\* No request is made: there is no answer
NoResponse == <<>>

\* 2. one call of replace_image by re.sub, for the match at pos
ReplaceImage ==
    /\ pc = "UploadingImages"
    /\ pos <= Len(content)
    /\ IF ReachesUpload(content[pos], env.files)
       THEN \E token_resp \in DraftTokenResponses, upload_resp \in UploadResponses :
               ImageReplaced(replace_image(content[pos], env.files, cache, now,
                                           token_resp, upload_resp))
       ELSE ImageReplaced(replace_image(content[pos], env.files, cache, now,
                                        NoResponse, NoResponse))
    /\ UNCHANGED <<now, ticks, call, issued, tbVars, args, env, title, author, digest,
                   thumb_media_id>>

\* 3. re.sub returns; content = self._fix_wechat_editor_issues(content)
FixEditorIssues ==
    /\ pc = "UploadingImages"
    /\ pos > Len(content)
    /\ content' = fix_wechat_editor_issues(content)
    /\ pc' = "EnforcingConstraints"
    /\ UNCHANGED <<tokVars, tbVars, args, env, title, author, digest, thumb_media_id,
                   pos, outcomes, log, result>>

\* The length checks of title, author and digest
EnforceConstraints ==
    /\ pc = "EnforcingConstraints"
    /\ LET t == EnforceTitle(title)
           a == EnforceAuthor(EffectiveAuthor(args.author, env.author))
           d == EnforceDigest(digest, t.title)
       IN  /\ title' = t.title
           /\ author' = a.author
           /\ digest' = d.digest
           /\ log' = log \o t.warnings \o a.warnings \o d.warnings
    /\ pc' = "Submitting"
    /\ UNCHANGED <<tokVars, tbVars, args, env, content, thumb_media_id, pos, outcomes,
                   result>>

\* token = self.get_access_token(); the first POST to /draft/add and the check of its answer
Submit ==
    /\ pc = "Submitting"
    /\ \E token_resp \in DraftTokenResponses, errcode \in env.codes :
          LET r == get_access_token(cache, now, FALSE, token_resp)
          IN  /\ cache' = r.cache
              /\ IF r.raised
                 THEN /\ log' = log \o TokenEvents(r, FALSE)
                      /\ pc' = "Failed"
                      /\ result' = [result EXCEPT !.error = "auth"]
                 ELSE /\ log' = log \o TokenEvents(r, FALSE) \o <<"draft_add">>
                      /\ pc' = AfterSubmit(errcode)
                      /\ result' = [codes |-> <<errcode>>,
                                    error |-> IF AfterSubmit(errcode) = "Failed"
                                              THEN "submission" ELSE "none",
                                    payload |-> [title |-> title, author |-> author,
                                                 digest |-> digest, content |-> content,
                                                 thumb_media_id |-> thumb_media_id]]
    /\ UNCHANGED <<now, ticks, call, issued, tbVars, args, env, title, author, digest,
                   content, thumb_media_id, pos, outcomes>>

\* get_access_token(force_refresh=True), the second POST and the check of its answer
Retry ==
    /\ pc = "Retrying"
    /\ \E token_resp \in DraftTokenResponses, errcode \in env.codes :
          LET r == get_access_token(cache, now, TRUE, token_resp)
          IN  /\ cache' = r.cache
              /\ IF r.raised
                 THEN /\ log' = log \o TokenEvents(r, TRUE)
                      /\ pc' = "Failed"
                      /\ result' = [result EXCEPT !.error = "auth"]
                 ELSE /\ log' = log \o TokenEvents(r, TRUE) \o <<"draft_add">>
                      /\ pc' = AfterResubmit(errcode)
                      /\ result' = [result EXCEPT
                                      !.codes = Append(@, errcode),
                                      !.error = IF AfterResubmit(errcode) = "Failed"
                                                THEN "submission" ELSE "none"]
    /\ UNCHANGED <<now, ticks, call, issued, tbVars, args, env, title, author, digest,
                   content, thumb_media_id, pos, outcomes>>

NextDraft ==
    \/ PrepareCover
    \/ RemoveCoverImage
    \/ ReplaceImage
    \/ FixEditorIssues
    \/ EnforceConstraints
    \/ Submit
    \/ Retry

----------------------------------------------------------------------------
(* The inputs of create_draft *)

Attr_class == [name |-> "class", marked |-> FALSE]
Attr_alt == [name |-> "alt", marked |-> FALSE]
Attr_alt_cover == [name |-> "alt", marked |-> TRUE]
Attr_title_cover == [name |-> "title", marked |-> TRUE]

Src_cover == Str_cover \o Ext_png                               \* cover.png
Src_Cover == <<"C", "o", "v", "e", "r", ".", "J", "P", "G">>    \* Cover.JPG
Src_dir_cover == <<"i", "/">> \o Str_cover \o Ext_png           \* i/cover.png
Src_a == <<"a">> \o Ext_png                                     \* a.png
Src_b == <<"b">> \o Ext_png                                     \* b.png

Img(before_src, src, quote, after_src) ==
    [kind |-> "img", before_src |-> before_src, src |-> src, quote |-> quote,
     after_src |-> after_src]

Text == [kind |-> "text"]
Space == [kind |-> "space"]
TitleComment == [kind |-> "comment", title_marker |-> TRUE]

Items ==
    {Text, Space, TitleComment,
     Img(<<>>, Src_Cover, "single", <<Attr_alt>>),
     Img(<<>>, Src_dir_cover, "double", <<>>),
     Img(<<Attr_class>>, Src_a, "single", <<Attr_alt>>),
     Img(<<>>, Src_b, "double", <<>>),
     Img(<<Attr_alt_cover>>, Src_a, "double", <<>>),
     Img(<<>>, Src_b, "double", <<Attr_title_cover>>),
     Img(<<>>, Url_https, "double", <<>>)}

\* All documents of at most n items
DocsUpTo(n) == UNION {[1..k -> Items] : k \in 0..n}

\* <img src="cover.png" alt="x">body<img class="c" src='a.png' alt="x">
ExampleDoc ==
    <<Img(<<>>, Src_cover, "double", <<Attr_alt>>), Text,
      Img(<<Attr_class>>, Src_a, "single", <<Attr_alt>>)>>

DefaultTitle == <<97, 20013>>
NoAuthor == [given |-> FALSE, text |-> <<>>]

\* The cache files create_draft can find at time t
FreshFile(t) ==
    ObjectFile([access_token |-> "tokOld", expires_at |-> t + 10000, updated_at |-> t - 1])
StaleFile(t) ==
    ObjectFile([access_token |-> "tokOld", expires_at |-> t + 100, updated_at |-> t - 1])
DraftCacheFiles(t) == {NoFile, InvalidJsonFile, FreshFile(t), StaleFile(t)}

DraftArgs(titles, authors, digests, docs, thumbs) ==
    [title : titles, author : authors, digest : digests, content : docs,
     thumb_media_id : thumbs]

\* The surroundings of a run: the configured author, whether assets/default_cover.png is
\* there, the files under content_base_dir, and the errcodes /draft/add may answer
DraftEnv(authors, covers, filesets, codes) ==
    [author : authors, default_cover : covers, files : filesets, codes : {codes}]

\* create_draft with a plain title and a few documents: the cover, the submission, the retry
Init ==
    \E a \in DraftArgs({DefaultTitle}, {NoAuthor}, {<<>>},
                       {<<>>, ExampleDoc, <<Img(<<>>, Src_b, "double", <<>>)>>},
                       {"", "thumb0"}),
       e \in DraftEnv({<<>>}, BOOLEAN, {{Src_a}}, DraftCodes),
       file \in DraftCacheFiles(0) :
        DraftStart(a, e, file)

Spec == Init /\ [][NextDraft]_vars

\* The same runs, every step of create_draft being taken in turn: the code is sequential,
\* and each request is taken to end with an answer or an exception
SpecLive == Init /\ [][NextDraft]_vars /\ WF_vars(NextDraft)

\* create_draft over all documents of a few items, with a cover given
InitContent ==
    \E a \in DraftArgs({DefaultTitle}, {NoAuthor}, {<<>>}, DocsUpTo(MaxDocLen), {"thumb0"}),
       e \in DraftEnv({<<>>}, {FALSE}, {{Src_a}}, {0, 42001}),
       file \in {NoFile} :
        DraftStart(a, e, file)

SpecContent == InitContent /\ [][NextDraft]_vars

\* Titles: one character repeated, and possibly one more character of any width
Titles ==
    {Repeat(c, n) \o tail : c \in Chars, n \in 0..MaxTitleLen,
                            tail \in {<<>>} \cup {<<d>> : d \in Chars}}
Authors ==
    {NoAuthor} \cup {[given |-> TRUE, text |-> Repeat(c, n)] : c \in Chars,
                                                             n \in 0..MaxAuthorLen}
Digests == {Repeat(c, n) : c \in Chars, n \in 0..MaxDigestLen}

\* <img src="b.png">, the file not being there
MissingImageDoc == <<Img(<<>>, Src_b, "double", <<>>)>>

\* create_draft over titles, authors and digests up to and beyond their limits, one of
\* the three at a time
InitFields ==
    \E a \in DraftArgs(Titles, {NoAuthor}, {<<>>}, {MissingImageDoc}, {"thumb0"})
             \cup DraftArgs({DefaultTitle}, Authors, {<<>>}, {MissingImageDoc}, {"thumb0"})
             \cup DraftArgs({DefaultTitle}, {NoAuthor}, Digests, {MissingImageDoc},
                            {"thumb0"}),
       e \in DraftEnv({<<>>, Repeat(20013, 7)}, {FALSE}, {{Src_a}}, {0, 42001}),
       file \in {FreshFile(0)} :
        DraftStart(a, e, file)

SpecFields == InitFields /\ [][NextDraft]_vars

----------------------------------------------------------------------------
(* Properties of get_access_token, checked under SpecToken *)

\* The cache file holds a token that may still be used at time t
CachedTokenUsable(file, t) ==
    /\ file.kind = "json_object"
    /\ {"access_token", "expires_at"} \subseteq DOMAIN file.fields
    /\ t < file.fields["expires_at"] - 300

\* C3: get_access_token requests a token from the remote endpoint if and only if
\* force_refresh is true or the cache holds no usable token, a cached token being usable
\* exactly while now < expires_at - 300.  A cache hit returns the cached token without a
\* request and leaves the cache file as it was; a cached token expiring 10000 s from now
\* is a hit, one expiring 100 s or exactly 300 s from now is refreshed.
C3_RefreshIffForcedOrStale ==
    call.made =>
        /\ call.net \in {0, 1}
        /\ call.net = 1 <=> (call.force_refresh \/ ~CachedTokenUsable(call.before, call.at))
        /\ call.net = 0 =>
              /\ ~call.raised
              /\ call.token = call.before.fields["access_token"]
              /\ cache = call.before
        /\ (/\ ~call.force_refresh
            /\ call.before.kind = "json_object"
            /\ "access_token" \in DOMAIN call.before.fields
            /\ "expires_at" \in DOMAIN call.before.fields) =>
              LET left == call.before.fields["expires_at"] - call.at
              IN  /\ left = 10000 => call.net = 0
                  /\ left \in {100, 300} => call.net = 1

\* A call without force_refresh found a token expiring 10000 s later and returned it
C3_Witness ==
    /\ call.made
    /\ ~call.force_refresh
    /\ call.before.kind = "json_object"
    /\ "expires_at" \in DOMAIN call.before.fields
    /\ call.before.fields["expires_at"] = call.at + 10000
    /\ call.net = 0
    /\ call.token = "tokOld"

\* C4: when the remote endpoint answers a token request with an error, get_access_token
\* raises: it returns no token, in particular not the cached one, and the cache file is
\* left as it was before the call.
C4_AuthErrorRaisesAndKeepsCache ==
    (call.made /\ call.net = 1 /\ "errcode" \in DOMAIN call.resp) =>
        /\ call.raised
        /\ call.token = NoToken
        /\ cache = call.before

\* A token request failed while the cache held a stale token
C4_Witness ==
    /\ call.made
    /\ call.net = 1
    /\ "errcode" \in DOMAIN call.resp
    /\ call.before.kind = "json_object"
    /\ "access_token" \in DOMAIN call.before.fields
    /\ call.raised

\* C5: a token obtained from the remote endpoint is returned, and the cache file is then
\* exactly the new entry: that token, expiring expires_in (7200 when absent) after the
\* call.  A later call without force_refresh returns that token without a request exactly
\* when its time is before expires_at - 300.
C5_IssuedTokenPersistedAndReused ==
    /\ (call.made /\ call.net = 1 /\ "errcode" \notin DOMAIN call.resp) =>
          /\ ~call.raised
          /\ call.token = call.resp["access_token"]
          /\ cache.kind = "json_object"
          /\ DOMAIN cache.fields = {"access_token", "expires_at", "updated_at"}
          /\ cache.fields["access_token"] = call.token
          /\ cache.fields["expires_at"] =
                call.at + (IF "expires_in" \in DOMAIN call.resp
                           THEN call.resp["expires_in"] ELSE 7200)
    /\ (call.made /\ ~call.force_refresh /\ call.issued_before.made) =>
          ((call.net = 0 /\ ~call.raised /\ call.token = call.issued_before.token)
             <=> call.at < call.issued_before.expires_at - 300)
    /\ issued.made =>
          /\ cache.kind = "json_object"
          /\ cache.fields["access_token"] = issued.token
          /\ cache.fields["expires_at"] = issued.expires_at

\* A token issued without expires_in is returned from the cache 6899 s later
C5_Witness ==
    /\ call.made
    /\ ~call.force_refresh
    /\ call.issued_before.made
    /\ call.issued_before.expires_at = call.issued_before.at + 7200
    /\ call.at = call.issued_before.at + 6899
    /\ call.net = 0
    /\ call.token = call.issued_before.token

\* The cache file exists but holds no readable entry with both fields
CacheCorrupt(file) ==
    \/ file.kind \in {"unreadable", "invalid_json", "json_list"}
    \/ /\ file.kind = "json_object"
       /\ ~({"access_token", "expires_at"} \subseteq DOMAIN file.fields)

\* C6: a corrupt or unreadable cache file is a cache miss: get_access_token(false) goes
\* on to the token request, and the call raises if and only if that request fails; when
\* it succeeds the call returns the token the endpoint gave.
C6_CorruptCacheIsAMiss ==
    (call.made /\ ~call.force_refresh /\ CacheCorrupt(call.before)) =>
        /\ call.net = 1
        /\ call.raised <=> "errcode" \in DOMAIN call.resp
        /\ ~call.raised => call.token = call.resp["access_token"]

\* A cache entry with a late expires_at and no access_token was passed over and a token
\* was fetched
C6_Witness ==
    /\ call.made
    /\ ~call.force_refresh
    /\ call.before.kind = "json_object"
    /\ "access_token" \notin DOMAIN call.before.fields
    /\ "expires_at" \in DOMAIN call.before.fields
    /\ call.at < call.before.fields["expires_at"] - 300
    /\ call.net = 1
    /\ ~call.raised

----------------------------------------------------------------------------
(* Properties of create_draft *)

Forced == Count(log, "token_refresh_forced")
Submissions == Count(log, "draft_add")
Submitted == result.codes # <<>>

\* C1 as first stated: after a first answer of 40001 or 42001 there is exactly one forced
\* refresh followed by exactly one resubmission, a failing resubmission ends the run, and
\* there are never more than two submissions or more than one forced refresh.
C1_Original ==
    /\ Submissions <= 2
    /\ Forced <= 1
    /\ (pc \in {"Done", "Failed"} /\ Submitted /\ result.codes[1] \in {40001, 42001}) =>
          (Forced = 1 /\ Submissions = 2)
    /\ (Len(result.codes) = 2 /\ result.codes[2] # 0) => pc = "Failed"

\* C1: after a first answer of 40001 or 42001 create_draft makes exactly one forced token
\* refresh; when the refresh succeeds exactly one resubmission follows, and a non-zero
\* errcode of it (40001 and 42001 too) ends the run as failed; when the refresh fails the
\* run fails with no resubmission.  A run never submits more than twice nor forces more
\* than one refresh, and it forces none unless the first answer was 40001 or 42001.
C1_OneRefreshThenAtMostOneResubmission ==
    /\ Submissions <= 2
    /\ Forced <= 1
    /\ Submissions = Len(result.codes)
    /\ Forced = 1 => (Submitted /\ result.codes[1] \in {40001, 42001})
    /\ (pc \in {"Done", "Failed"} /\ Submitted /\ result.codes[1] \in {40001, 42001}) =>
          /\ Forced = 1
          /\ IF result.error = "auth"
             THEN Submissions = 1 /\ pc = "Failed"
             ELSE Submissions = 2
    /\ (Len(result.codes) = 2 /\ result.codes[2] # 0) =>
          (pc = "Failed" /\ result.error = "submission")
    /\ (Len(result.codes) = 2 /\ result.codes[2] = 0) => pc = "Done"

\* The first submission got 42001, the token was refreshed, the second got 40001: failed
C1_Witness ==
    /\ pc = "Failed"
    /\ result.codes = <<42001, 40001>>
    /\ Forced = 1
    /\ Submissions = 2

\* C2: a first answer with a non-zero errcode other than 40001 and 42001 ends the run at
\* once with the submission error: no forced refresh, no resubmission.
C2_NoRetryOnOtherErrors ==
    (Submitted /\ result.codes[1] \notin {0, 40001, 42001}) =>
        /\ pc = "Failed"
        /\ result.error = "submission"
        /\ Forced = 0
        /\ Submissions = 1
        /\ Len(result.codes) = 1

\* The first submission got 45009 and the run failed
C2_Witness ==
    /\ pc = "Failed"
    /\ result.codes = <<45009>>
    /\ Submissions = 1

\* The document the inline image stage starts from
Stripped == remove_cover_image(args.content)

\* C7: the inline image stage always hands on a document.  At every match the tag whose
\* upload gave a URL has that URL as its src and is otherwise as it was; every other tag
\* and every other item is as it was; every match is visited whatever happened at the
\* ones before it; and create_draft never fails for an inline image.
C7_InlineImageFailuresStayLocal ==
    /\ pc = "Failed" =>
          result.error \in {"cover_token", "cover_rejected", "auth", "submission"}
    /\ pc = "UploadingImages" =>
          /\ Len(content) = Len(Stripped)
          /\ \A i \in DOMAIN Stripped :
                LET done == {k \in DOMAIN outcomes :
                                outcomes[k].at = i /\ outcomes[k].what = "uploaded"}
                IN  IF done # {}
                    THEN \E k \in done :
                            /\ outcomes[k].url # NoUrl
                            /\ content[i].src = outcomes[k].url
                            /\ content[i].before_src = Stripped[i].before_src
                            /\ content[i].after_src = Stripped[i].after_src
                            /\ content[i].kind = "img"
                    ELSE content[i] = Stripped[i]
          /\ {outcomes[k].at : k \in DOMAIN outcomes} =
                {i \in DOMAIN Stripped : IsImg(Stripped[i]) /\ i < pos}
    /\ pc = "EnforcingConstraints" =>
          {outcomes[k].at : k \in DOMAIN outcomes} =
              {i \in DOMAIN Stripped : IsImg(Stripped[i])}

\* An image was rejected or had no token, a later one was uploaded, and the draft was made
C7_Witness ==
    /\ pc = "Done"
    /\ \E i, j \in DOMAIN outcomes :
          /\ i < j
          /\ outcomes[i].what \in {"token", "rejected"}
          /\ outcomes[j].what = "uploaded"

\* The cover markup of the cover strip
IsCoverMarkup(tag) ==
    \/ Lower(tag.src) \in {Str_cover \o e : e \in {Ext_png, Ext_jpg, Ext_jpeg, Ext_gif}}
    \/ \E a \in Attrs(tag) : a.name \in {"alt", "title"} /\ a.marked

\* C8 as first stated: every <img> of the submitted content has an absolute http(s) src
\* and none is cover markup.
C8_Original ==
    Submitted =>
        \A i \in DOMAIN result.payload.content :
            LET item == result.payload.content[i]
            IN  IsImg(item) => (IsRemoteSrc(item.src) /\ ~IsCoverMarkup(item))

\* C8: no <img> of the submitted content is cover markup (src cover.png, cover.jpg,
\* cover.jpeg or cover.gif in any case, or alt or title holding the cover marker), and
\* every <img> of it has an absolute http(s) src unless the inline stage left it as it
\* was: its src holds "cover", its file is not there, the token or the upload failed, or
\* the upload gave no URL.
C8_NoCoverMarkupAndOnlySkippedLocalImages ==
    Submitted =>
        \A i \in DOMAIN result.payload.content :
            LET item == result.payload.content[i]
            IN  IsImg(item) =>
                  /\ ~IsCoverMarkup(item)
                  /\ \/ IsRemoteSrc(item.src)
                     \/ \E k \in DOMAIN outcomes :
                          /\ outcomes[k].tag = item
                          /\ \/ outcomes[k].what = "cover_like"
                                /\ Contains(Lower(item.src), Str_cover)
                             \/ outcomes[k].what = "missing" /\ item.src \notin env.files
                             \/ outcomes[k].what \in {"token", "rejected", "no_url"}
                                /\ item.src \in env.files

\* A document with a cover image and a local image was submitted without the first and
\* with the second pointing at the uploaded URL
C8_Witness ==
    /\ Submitted
    /\ \E i \in DOMAIN args.content :
          IsImg(args.content[i]) /\ IsCoverMarkup(args.content[i])
    /\ \E k \in DOMAIN outcomes : outcomes[k].what = "uploaded"
    /\ \A i \in DOMAIN result.payload.content :
          IsImg(result.payload.content[i]) => IsRemoteSrc(result.payload.content[i].src)
    /\ \E i \in DOMAIN result.payload.content : IsImg(result.payload.content[i])

\* C9: the submitted title has at most 64 characters and at most 192 bytes, the author
\* at most 20 bytes and the digest at most 120 bytes, and a title of 70 characters is
\* submitted as its first 64 characters.
C9_SubmittedFieldsWithinLimits ==
    Submitted =>
        /\ Len(result.payload.title) <= 64
        /\ EncodedLen(result.payload.title) <= 192
        /\ EncodedLen(result.payload.author) <= 20
        /\ EncodedLen(result.payload.digest) <= 120
        /\ Len(args.title) = 70 => result.payload.title = SubSeq(args.title, 1, 64)

\* The text each submitted field was taken from
TitleSource == args.title
AuthorSource == EffectiveAuthor(args.author, env.author)
DigestSource == IF args.digest = <<>> THEN args.title ELSE args.digest

TitleWarned == Count(log, "warn_title_chars") + Count(log, "warn_title_bytes") > 0
AuthorWarned == Count(log, "warn_author") > 0
DigestWarned == Count(log, "warn_digest") > 0

\* C11: whenever the submitted title, author or digest differs from the text it was taken
\* from (the supplied title, the supplied or configured author, the supplied digest, or
\* the title a missing digest is derived from), a truncation warning for that field has
\* been emitted before the submission.
C11_EveryTruncationReported ==
    Submitted =>
        /\ result.payload.title # TitleSource => TitleWarned
        /\ result.payload.author # AuthorSource => AuthorWarned
        /\ result.payload.digest # DigestSource => DigestWarned

NoCoverSupplied == args.thumb_media_id = ""
CoverUploadFailed == result.error \in {"cover_token", "cover_rejected"}
CoverUploads == Count(log, "upload_cover")
InlineUploads == Count(log, "upload_content")

\* With no cover supplied and no default cover asset: a warning and nothing else happens
\* in the cover step, the cover stays empty, and nothing fails before the submission
CoverAssetMissingIsNotFatal ==
    (NoCoverSupplied /\ ~env.default_cover) =>
        /\ thumb_media_id = ""
        /\ CoverUploads = 0
        /\ pc # "PreparingCover" => (log # <<>> /\ log[1] = "warn_no_cover")
        /\ pc = "Failed" => result.error \in {"auth", "submission"}
        /\ Submitted => result.payload.thumb_media_id = ""

\* With no cover supplied and the asset there: the cover upload precedes every inline
\* image upload, and its failure ends the run with nothing uploaded inline or submitted
CoverUploadedFirstAndFatal ==
    (NoCoverSupplied /\ env.default_cover) =>
        /\ \A j \in 1..Len(log) :
              log[j] = "upload_content" => \E i \in 1..(j - 1) : log[i] = "upload_cover"
        /\ (pc # "PreparingCover" /\ ~CoverUploadFailed) =>
              (CoverUploads = 1 /\ thumb_media_id # "")
        /\ CoverUploadFailed =>
              /\ pc = "Failed"
              /\ InlineUploads = 0
              /\ Submissions = 0
              /\ ~Submitted
              /\ outcomes = <<>>
              /\ content = args.content
        /\ (CoverUploadFailed /\ result.error = "cover_token") => CoverUploads = 0

\* C12: with no cover media id supplied, a missing default cover asset is not fatal: the
\* run goes on through the normalization of the content and reaches Submitting with an
\* empty thumb_media_id; when the asset is there it is uploaded before any inline image,
\* and a failure of that upload (no token, or the upload rejected) ends create_draft as
\* failed with no inline image upload and no draft submission issued.
C12_DefaultCoverStep ==
    /\ [](CoverAssetMissingIsNotFatal /\ CoverUploadedFirstAndFatal)
    /\ (pc = "PreparingCover" /\ NoCoverSupplied /\ ~env.default_cover)
          ~> (pc = "Submitting" /\ thumb_media_id = "")

\* The cover upload was rejected for a document with an image that would have been uploaded
C12_Witness ==
    /\ NoCoverSupplied
    /\ env.default_cover
    /\ args.content = ExampleDoc
    /\ pc = "Failed"
    /\ result.error = "cover_rejected"
    /\ CoverUploads = 1

\* C13: when no digest is supplied, the submitted digest is truncate_by_bytes(T, 54) of
\* the title T as it was supplied, also when T is over 64 characters or 192 bytes and is
\* itself shortened before the digest is derived from it.
C13_DerivedDigestFromOriginalTitle ==
    (Submitted /\ args.digest = <<>>) =>
        result.payload.digest = truncate_by_bytes(args.title, DIGEST_FROM_TITLE_BYTES)

\* A title of more than 64 characters of 3 bytes each was shortened and submitted with
\* a derived digest
C13_Witness ==
    /\ Submitted
    /\ args.digest = <<>>
    /\ Len(args.title) > MAX_TITLE_CHARS
    /\ args.title[1] = 20013
    /\ result.payload.title # args.title
    /\ Len(result.payload.digest) = 18

----------------------------------------------------------------------------
(* Properties of truncate_by_bytes, checked under SpecTruncate *)

\* C10: truncate_by_bytes(s, n) is a prefix of s made of whole characters, it encodes
\* to at most n bytes, no longer prefix of s does, and it is s when s encodes to at most
\* n bytes.
C10_TruncateLongestPrefix ==
    tb.applied =>
        /\ Len(tb.out) <= Len(tb.text)
        /\ tb.out = SubSeq(tb.text, 1, Len(tb.out))
        /\ EncodedLen(tb.out) <= tb.max_bytes
        /\ \A k \in 0..Len(tb.text) :
              EncodedLen(SubSeq(tb.text, 1, k)) <= tb.max_bytes => k <= Len(tb.out)
        /\ EncodedLen(tb.text) <= tb.max_bytes => tb.out = tb.text

\* A text was cut before a multi-byte character that would have straddled the limit
C10_Witness ==
    /\ tb.applied
    /\ tb.out # <<>>
    /\ Len(tb.out) < Len(tb.text)
    /\ EncodedLen(tb.out) < tb.max_bytes
    /\ Utf8Len(tb.text[Len(tb.out) + 1]) > 1

====
